---- MODULE Spec2Model ----
(***************************************************************************)
(* Model of the screenshot API: the Lambda HTTP handler (http_handler.rs)  *)
(* and the browser session lifecycle it drives (screenshot.rs).            *)
(*                                                                         *)
(* One behaviour is one HTTP request handled end to end.  Every call that  *)
(* leaves the program (filesystem stat, environment write, process spawn,  *)
(* sleep, DevTools call) is appended to the history variable `calls`, in   *)
(* the order the code issues it; the outcome of each such call is chosen   *)
(* nondeterministically.                                                   *)
(***************************************************************************)
EXTENDS Integers, Sequences, FiniteSets, TLC

VARIABLES
    pc,          \* position of the request in the code
    fs,          \* filesystem: set of paths that exist
    env,         \* process environment: variable name -> value ("" = unset)
    event,       \* the lambda_http::Request held by function_handler and
                 \* handle_screenshot_request (NoEvent once they have passed
                 \* its parameters on: nothing reads it after that)
    req,         \* arguments passed to take_screenshot (url, width, height, wait_time, format)
    attempt,     \* launch_browser_with_retry: loop variable `attempt`
    last_error,  \* launch_browser_with_retry: local `last_error`
    chrome_path, \* take_screenshot: local `chrome_path`
    browser,     \* take_screenshot: local `browser` (the Browser handle)
    viewport,    \* validated_width / validated_height
    live,        \* browser processes that exist
    result,      \* value returned by ScreenshotService::take_screenshot
    response,    \* HTTP response returned by function_handler
    calls        \* history: the external calls made so far, in order

vars == <<pc, fs, env, event, req, attempt, last_error, chrome_path, browser,
          viewport, live, result, response, calls>>

----------------------------------------------------------------------------
(* Option<T>: None is the empty tuple, Some(v) the one-element tuple.      *)

None == <<>>

Some(v) == <<v>>

IsSome(o) == o # None

Unwrap(o) == o[1]

unwrap_or(o, d) == IF IsSome(o) THEN o[1] ELSE d

----------------------------------------------------------------------------
(* Strings that the code parses are sequences of one-character strings.    *)

Digits == <<"0", "1", "2", "3", "4", "5", "6", "7", "8", "9">>

IsDigit(c) == \E i \in 1..10 : Digits[i] = c

DigitVal(c) == (CHOOSE i \in 1..10 : Digits[i] = c) - 1

Alpha == {"a", "c", "e", "h", "i", "l", "m", "o", "p", "s", "t", "x"}

IsAlpha(c) == c \in Alpha

RECURSIVE DecimalValue(_, _)
DecimalValue(s, acc) ==
    IF s = <<>> THEN acc ELSE DecimalValue(Tail(s), acc * 10 + DigitVal(Head(s)))

(* str::parse::<u32>() / parse::<u64>(): an optional '+', then one or more  *)
(* decimal digits; anything else is an error (.ok() makes it None).  The    *)
(* inputs of the model have at most four digits, so the overflow branch of  *)
(* the parser is never taken.                                               *)
parse_uint(s) ==
    LET body == IF s # <<>> /\ Head(s) = "+" THEN Tail(s) ELSE s
    IN IF body # <<>> /\ \A i \in 1..Len(body) : IsDigit(body[i])
       THEN Some(DecimalValue(body, 0))
       ELSE None

----------------------------------------------------------------------------
(* url::Url::parse with no base URL.                                       *)

SpecialSchemes ==
    { <<"h", "t", "t", "p">>, <<"h", "t", "t", "p", "s">> }

IsSchemeChar(c) == IsAlpha(c) \/ IsDigit(c) \/ c \in {"+", "-", "."}

\* Index of the ':' that ends a well-formed scheme, 0 when there is none.
SchemeEnd(u) ==
    LET colons == { i \in 1..Len(u) :
                      /\ u[i] = ":"
                      /\ i > 1
                      /\ IsAlpha(u[1])
                      /\ \A j \in 1..(i - 1) : IsSchemeChar(u[j]) }
    IN IF colons = {} THEN 0
       ELSE CHOOSE i \in colons : \A j \in colons : i <= j

RECURSIVE SkipSlashes(_)
SkipSlashes(s) ==
    IF s # <<>> /\ Head(s) \in {"/", "\\"} THEN SkipSlashes(Tail(s)) ELSE s

RECURSIVE HostOf(_)
HostOf(s) ==
    IF s = <<>> \/ Head(s) \in {"/", "\\", "?", "#"} THEN <<>>
    ELSE <<Head(s)>> \o HostOf(Tail(s))

UrlParse(u) ==
    LET k == SchemeEnd(u)
    IN IF k = 0
       THEN [ok |-> FALSE, err |-> "relative URL without a base"]
       ELSE LET scheme == SubSeq(u, 1, k - 1)
                rest == SubSeq(u, k + 1, Len(u))
            IN IF scheme \in SpecialSchemes /\ HostOf(SkipSlashes(rest)) = <<>>
               THEN [ok |-> FALSE, err |-> "empty host"]
               ELSE [ok |-> TRUE, err |-> ""]

----------------------------------------------------------------------------
(* screenshot.rs: the leaf components.                                     *)

ChromePaths == <<"/opt/chromium/chrome", "/opt/chrome">>

\* The loop of find_chrome_executable from list index i on: the value it
\* returns and the paths it stats (pb.exists()) on the way, in order.
RECURSIVE FindFromChecksEveryPath(_, _)
FindFromChecksEveryPath(i, fsys) ==
    IF i > Len(ChromePaths) THEN [ret |-> None, stats |-> <<>>]
    ELSE LET r == FindFromChecksEveryPath(i + 1, fsys)
         IN [ret |-> IF ChromePaths[i] \in fsys THEN Some(ChromePaths[i]) ELSE r.ret,
             stats |-> <<ChromePaths[i]>> \o r.stats]

RECURSIVE FindFrom(_, _)
FindFrom(i, fsys) ==
    IF i > Len(ChromePaths) THEN [ret |-> None, stats |-> <<>>]
    ELSE IF ChromePaths[i] \in fsys
         THEN [ret |-> Some(ChromePaths[i]), stats |-> <<ChromePaths[i]>>]
         ELSE LET r == FindFrom(i + 1, fsys)
              IN [ret |-> r.ret, stats |-> <<ChromePaths[i]>> \o r.stats]

find_chrome_executable(fsys) == FindFrom(1, fsys).ret

Call(op, arg) == [op |-> op, arg |-> arg]

\* What one call of find_chrome_executable adds to the history.
FindCalls(fsys) ==
    LET r == FindFrom(1, fsys)
    IN [i \in 1..Len(r.stats) |-> Call("exists", <<r.stats[i], r.stats[i] \in fsys>>)]
       \o <<Call("find_chrome_executable", <<r.ret>>)>>

LambdaEnv ==
    [HOME |-> "/tmp",
     XDG_CONFIG_HOME |-> "/tmp/.config",
     XDG_CACHE_HOME |-> "/tmp/.cache",
     XDG_DATA_HOME |-> "/tmp/.local/share",
     FONTCONFIG_PATH |-> "/opt/chromium",
     FONTCONFIG_FILE |-> "/opt/chromium/fonts.conf",
     CHROME_NO_SANDBOX |-> "1",
     DISPLAY |-> ":99",
     LD_LIBRARY_PATH |-> "/opt/chromium:/opt/chromium/lib:/opt/chromium/swiftshader"]

AuthEnvKeys == {"API_KEY", "RAPIDAPI_PROXY_SECRET"}

EnvKeys == DOMAIN LambdaEnv \cup AuthEnvKeys

setup_lambda_env_keeps_existing(e) ==
    [k \in DOMAIN e |-> IF k \in DOMAIN LambdaEnv /\ e[k] = "" THEN LambdaEnv[k] ELSE e[k]]

setup_lambda_env(e) ==
    [k \in DOMAIN e |-> IF k \in DOMAIN LambdaEnv THEN LambdaEnv[k] ELSE e[k]]

MIN_SIZE == 320

MAX_SIZE == 3840

Ok(v) == [ok |-> TRUE, bytes |-> v]

Err(kind, msg) == [ok |-> FALSE, err |-> [kind |-> kind, msg |-> msg]]

DimensionError(value, dimension_name, text, limit) ==
    Err("InvalidUrl", [dimension_name |-> dimension_name, text |-> text,
                       limit |-> limit, got |-> value])

validate_dimension(value, dimension_name) ==
    IF value < MIN_SIZE
    THEN DimensionError(value, dimension_name, "must be at least", MIN_SIZE)
    ELSE IF value > MAX_SIZE
         THEN DimensionError(value, dimension_name, "must be at most", MAX_SIZE)
         ELSE [ok |-> TRUE, value |-> value]

\* take_screenshot's call of launch_browser_with_retry(.., .., 3)
MaxRetries == 3

RetryDelayMs == 1000

\* `if attempt < max_retries` guarding the sleep after a failed attempt
ShouldSleepAlways(a, max_retries) == a <= max_retries

ShouldSleepTooFew(a, max_retries) == a + 1 < max_retries

ShouldSleep(a, max_retries) == a < max_retries

\* `for attempt in 1..=max_retries`: does the loop run an iteration for a?
LoopContinuesOneMore(a, max_retries) == a <= max_retries + 1

LoopContinues(a, max_retries) == a <= max_retries

\* The format the capture call asks the browser for.
CaptureScreenshotFormatOption == "png"

DefaultWidth == 1920

DefaultHeight == 1080

DefaultWaitMs == 1000

\* Leaving take_screenshot drops the local `browser`; dropping the handle
\* terminates the process it owns.
DropBrowserLeaks(procs, handle) == procs

DropBrowser(procs, handle) ==
    IF IsSome(handle) THEN procs \ {Unwrap(handle)} ELSE procs

----------------------------------------------------------------------------
(* http_handler.rs: pure parts.                                            *)

\* base64::engine::general_purpose::STANDARD.encode: sextets 0..63, 64 is '='
RECURSIVE Base64Encode(_)
Base64Encode(b) ==
    IF Len(b) = 0 THEN <<>>
    ELSE IF Len(b) = 1
         THEN <<b[1] \div 4, (b[1] % 4) * 16, 64, 64>>
         ELSE IF Len(b) = 2
              THEN <<b[1] \div 4, (b[1] % 4) * 16 + b[2] \div 16,
                     (b[2] % 16) * 4, 64>>
              ELSE <<b[1] \div 4, (b[1] % 4) * 16 + b[2] \div 16,
                     (b[2] % 16) * 4 + b[3] \div 64, b[3] % 64>>
                   \o Base64Encode(SubSeq(b, 4, Len(b)))

ContentType(format) ==
    IF format = "png" THEN "image/png"
    ELSE IF format = "jpeg" THEN "image/jpeg"
         ELSE "image/png"

\* `provided_key_header.or(provided_key_query)` with the operands swapped
AuthorizedQueryKeyFirst(e, ev) ==
    LET expected_api_key == e["API_KEY"]
        rapidapi_secret == e["RAPIDAPI_PROXY_SECRET"]
        a0 == expected_api_key = "" /\ rapidapi_secret = ""
        a1 == a0 \/ (/\ rapidapi_secret # ""
                     /\ ev.headers.proxy_secret = Some(rapidapi_secret))
        provided_key == IF IsSome(ev.query.key)
                        THEN ev.query.key
                        ELSE ev.headers.x_api_key
        a2 == a1 \/ (/\ expected_api_key # ""
                     /\ provided_key = Some(expected_api_key))
    IN a2

\* The authentication block of function_handler.
Authorized(e, ev) ==
    LET expected_api_key == e["API_KEY"]
        rapidapi_secret == e["RAPIDAPI_PROXY_SECRET"]
        a0 == expected_api_key = "" /\ rapidapi_secret = ""
        a1 == a0 \/ (/\ rapidapi_secret # ""
                     /\ ev.headers.proxy_secret = Some(rapidapi_secret))
        provided_key == IF IsSome(ev.headers.x_api_key)
                        THEN ev.headers.x_api_key
                        ELSE ev.query.key
        a2 == a1 \/ (/\ expected_api_key # ""
                     /\ provided_key = Some(expected_api_key))
    IN a2

ErrorResponse(status, error, message) ==
    [status |-> status, error |-> error, message |-> message]

\* function_handler's Err arm: status 500, INTERNAL_ERROR, the error's text
InternalErrorAsBadRequest(message) == ErrorResponse(400, "BAD_REQUEST", message)

InternalError(message) == ErrorResponse(500, "INTERNAL_ERROR", message)

SuccessResponse(data, content_type) ==
    [status |-> 200, success |-> TRUE, data |-> data, content_type |-> content_type]

----------------------------------------------------------------------------
(* The inputs: requests, environments and filesystems the model draws from. *)

UrlInputs ==
    { <<"h", "t", "t", "p", "s", ":", "/", "/", "e", ".", "c">>,   \* https://e.c
      <<"m", "a", "i", "l", "t", "o", ":", "x">>,                  \* mailto:x
      <<>>,                                                        \* empty
      <<"e", ".", "c">>,                                           \* e.c
      <<"h", "t", "t", "p", ":", "/", "/">> }                      \* http://

WidthInputs ==
    { <<"1", "0", "0">>, <<"3", "2", "0">>, <<"3", "8", "4", "0">>,
      <<"3", "8", "4", "1">>, <<"x">> }

HeightInputs ==
    { <<"3", "1", "9">>, <<"3", "2", "0">>, <<"3", "8", "4", "1">> }

WaitInputs == { <<"0">>, <<"2", "5", "0">> }

FormatInputs == {"png", "jpeg", "gif"}

Methods == {"GET", "POST", "PUT"}

Optional(S) == {None} \cup {Some(v) : v \in S}

Queries ==
    [url : Optional(UrlInputs), width : Optional(WidthInputs),
     height : Optional(HeightInputs), wait : Optional(WaitInputs),
     format : Optional(FormatInputs), key : {None}]

\* Credentials configured in the environment and carried by the request.
AuthCases ==
    { [API_KEY |-> "", RAPIDAPI_PROXY_SECRET |-> "",
       proxy_secret |-> None, x_api_key |-> None, key |-> None],
      [API_KEY |-> "k", RAPIDAPI_PROXY_SECRET |-> "s",
       proxy_secret |-> Some("bad"), x_api_key |-> None, key |-> Some("k")],
      [API_KEY |-> "k", RAPIDAPI_PROXY_SECRET |-> "s",
       proxy_secret |-> Some("bad"), x_api_key |-> Some("bad"), key |-> Some("k")] }

EnvOf(a) ==
    [k \in EnvKeys |-> IF k = "API_KEY" THEN a.API_KEY
                       ELSE IF k = "RAPIDAPI_PROXY_SECRET" THEN a.RAPIDAPI_PROXY_SECRET
                       ELSE IF k = "HOME" THEN "/home/sbx_user"
                       ELSE ""]

EventOf(a, m, q) ==
    [method |-> m,
     headers |-> [proxy_secret |-> a.proxy_secret, x_api_key |-> a.x_api_key],
     query |-> [q EXCEPT !.key = a.key]]

NoEvent == [method |-> "", headers |-> <<>>, query |-> <<>>]

NoRequest == [url |-> <<>>, width |-> None, height |-> None,
              wait_time |-> None, format |-> ""]

NoResult == [ok |-> FALSE, err |-> [kind |-> "pending", msg |-> ""]]

NoResponse == [status |-> 0]

NoError == [attempt |-> 0, e |-> ""]

NoViewport == [width |-> 0, height |-> 0]

Init ==
    /\ pc = "function_handler"
    /\ fs \in SUBSET {ChromePaths[i] : i \in 1..Len(ChromePaths)}
    /\ \E a \in AuthCases, m \in Methods, q \in Queries :
          /\ env = EnvOf(a)
          /\ event = EventOf(a, m, q)
    /\ req = NoRequest
    /\ attempt = 0
    /\ last_error = NoError
    /\ chrome_path = None
    /\ browser = None
    /\ viewport = NoViewport
    /\ live = {}
    /\ result = NoResult
    /\ response = NoResponse
    /\ calls = <<>>

----------------------------------------------------------------------------
(* http_handler.rs                                                         *)

\* function_handler: authentication, then dispatch.
FunctionHandler ==
    /\ pc = "function_handler"
    /\ IF Authorized(env, event)
       THEN /\ pc' = "handle_screenshot_request"
            /\ UNCHANGED response
       ELSE /\ response' = ErrorResponse(401, "UNAUTHORIZED", "Invalid or missing API key")
            /\ pc' = "done"
    /\ UNCHANGED <<fs, env, event, req, attempt, last_error, chrome_path, browser,
                   viewport, live, result, calls>>

\* .first(name).and_then(|w| w.parse().ok()).unwrap_or(d)
ParamOr(p, d) == IF IsSome(p) THEN unwrap_or(parse_uint(Unwrap(p)), d) ELSE d

\* handle_screenshot_request: parameter extraction and method dispatch; an
\* Err it returns becomes function_handler's 500 INTERNAL_ERROR response.
HandleScreenshotRequest ==
    /\ pc = "handle_screenshot_request"
    /\ LET params == event.query
           width == ParamOr(params.width, DefaultWidth)
           height == ParamOr(params.height, DefaultHeight)
           wait_time == ParamOr(params.wait, DefaultWaitMs)
           format == unwrap_or(params.format, "png")
       IN IF params.url = None
          THEN /\ response' = InternalError(
                                            "Missing required 'url' parameter")
               /\ pc' = "done"
               /\ UNCHANGED <<req, event>>
          ELSE IF format # "png" /\ format # "jpeg"
          THEN /\ response' = InternalError(
                        "Invalid format. Only 'png' and 'jpeg' are supported")
               /\ pc' = "done"
               /\ UNCHANGED <<req, event>>
          ELSE IF event.method \in {"GET", "POST"}
          THEN /\ req' = [url |-> Unwrap(params.url), width |-> Some(width),
                          height |-> Some(height), wait_time |-> Some(wait_time),
                          format |-> format]
               /\ event' = NoEvent
               /\ pc' = "ScreenshotService::new"
               /\ UNCHANGED response
          ELSE /\ response' = ErrorResponse(405, "METHOD_NOT_ALLOWED",
                        "Only GET and POST methods are supported")
               /\ pc' = "done"
               /\ UNCHANGED <<req, event>>
    /\ UNCHANGED <<fs, env, attempt, last_error, chrome_path, browser,
                   viewport, live, result, calls>>

\* `find_chrome_executable().ok_or_else(|| ChromeNotFound(..))?`: does the
\* `?` return the error?
NotFoundIgnored(found) == FALSE

NotFound(found) == found = None

\* http_handler::take_screenshot, first statement: ScreenshotService::new()
ServiceNew ==
    /\ pc = "ScreenshotService::new"
    /\ LET found == find_chrome_executable(fs)
       IN IF ~NotFound(found)
          THEN /\ calls' = calls \o FindCalls(fs) \o <<Call("setup_lambda_env", <<>>)>>
               /\ env' = setup_lambda_env(env)
               /\ pc' = "take_screenshot"
               /\ UNCHANGED response
          ELSE /\ calls' = calls \o FindCalls(fs)
               /\ response' = InternalError(
                     <<"Failed to initialize browser: ",
                       Err("ChromeNotFound",
                           "Chrome executable not found in any standard location").err>>)
               /\ pc' = "done"
               /\ UNCHANGED env
    /\ UNCHANGED <<fs, event, req, attempt, last_error, chrome_path, browser,
                   viewport, live, result>>

\* http_handler::take_screenshot, after ScreenshotService::take_screenshot
\* has returned: the success envelope, or the Err that function_handler
\* turns into a 500.
HttpRespond ==
    /\ pc = "http_respond"
    /\ response' =
          IF result.ok
          THEN SuccessResponse(Base64Encode(result.bytes), ContentType(req.format))
          ELSE InternalError(
                             <<"Failed to take screenshot: ", result.err>>)
    /\ pc' = "done"
    /\ UNCHANGED <<fs, env, event, req, attempt, last_error, chrome_path, browser,
                   viewport, live, result, calls>>

----------------------------------------------------------------------------
(* screenshot.rs: ScreenshotService::take_screenshot                       *)

\* How many distinct errors Browser::new may fail with.
MaxLaunchErrors == 2

LaunchErrorNames == <<"port open timeout", "no websocket url", "no available ports">>

LaunchErrors == {LaunchErrorNames[i] : i \in 1..MaxLaunchErrors}

StepError == "cdp error"

CaptureOutputs == { <<137, 80, 78, 71>>, <<137, 80, 78, 71, 13>> }

\* `url::Url::parse(url).map_err(..)?`: does execution continue past it?
UrlCheckIgnored(u) == TRUE

UrlCheckPasses(u) == UrlParse(u).ok

\* URL validation and executable location, up to the call of
\* launch_browser_with_retry.
TakeScreenshotStart ==
    /\ pc = "take_screenshot"
    /\ IF ~UrlCheckPasses(req.url)
       THEN /\ result' = Err("InvalidUrl", UrlParse(req.url).err)
            /\ pc' = "take_screenshot_return"
            /\ UNCHANGED <<chrome_path, attempt, calls>>
       ELSE LET found == find_chrome_executable(fs)
            IN /\ calls' = calls \o FindCalls(fs)
               /\ IF ~NotFound(found)
                  THEN /\ chrome_path' = found
                       /\ attempt' = 1
                       /\ pc' = "launch_browser_with_retry"
                       /\ UNCHANGED result
                  ELSE /\ result' = Err("ChromeNotFound", "Chrome executable not found")
                       /\ pc' = "take_screenshot_return"
                       /\ UNCHANGED <<chrome_path, attempt>>
    /\ UNCHANGED <<fs, env, event, req, last_error, browser, viewport, live, response>>

NumSpawned == Cardinality({i \in 1..Len(calls) :
                             calls[i].op = "Browser::new" /\ calls[i].arg[3] = "ok"})

\* `return Ok(browser)` in the Ok arm of the match on Browser::new
SpawnOkFallsThrough == FALSE

SpawnOkReturns == TRUE

\* The end of one iteration of `for attempt in 1..=max_retries`: the next
\* iteration, or the Err after the loop, which take_screenshot maps to
\* BrowserLaunch and returns.
LoopNext(le) ==
    IF LoopContinues(attempt + 1, MaxRetries)
    THEN /\ attempt' = attempt + 1
         /\ last_error' = le
         /\ pc' = "launch_browser_with_retry"
         /\ UNCHANGED result
    ELSE /\ attempt' = 0
         /\ last_error' = NoError
         /\ result' = Err("BrowserLaunch",
                          [text |-> "Browser launch failed after retries: All launch attempts failed. Last error: ",
                           max_retries |-> MaxRetries,
                           last_error |-> le])
         /\ pc' = "take_screenshot_return"

\* Browser::new(fresh_options) returns Ok(browser)
LaunchSucceeds ==
    /\ pc = "launch_browser_with_retry"
    /\ calls' = Append(calls, Call("Browser::new", <<chrome_path, attempt, "ok">>))
    /\ LET pid == NumSpawned + 1
       IN /\ browser' = Some(pid)
          /\ live' = live \cup {pid}
    /\ IF SpawnOkReturns
       THEN /\ attempt' = 0
            /\ last_error' = NoError
            /\ pc' = "validate_dimension"
            /\ UNCHANGED result
       ELSE LoopNext(last_error)
    /\ UNCHANGED <<fs, env, event, req, chrome_path, viewport, response>>

\* Browser::new(fresh_options) returns Err(e)
LaunchFails ==
    /\ pc = "launch_browser_with_retry"
    /\ \E e \in LaunchErrors :
          /\ calls' = Append(calls, Call("Browser::new", <<chrome_path, attempt, e>>))
          /\ IF ShouldSleep(attempt, MaxRetries)
             THEN /\ last_error' = [attempt |-> attempt, e |-> e]
                  /\ pc' = "retry_sleep"
                  /\ UNCHANGED <<attempt, result>>
             ELSE LoopNext([attempt |-> attempt, e |-> e])
    /\ UNCHANGED <<fs, env, event, req, chrome_path, browser, viewport, live, response>>

\* std::thread::sleep(Duration::from_secs(1)) between attempts
RetrySleep ==
    /\ pc = "retry_sleep"
    /\ calls' = Append(calls, Call("retry_sleep", <<RetryDelayMs>>))
    /\ LoopNext(last_error)
    /\ UNCHANGED <<fs, env, event, req, chrome_path, browser, viewport, live, response>>

\* validate_dimension for width, then for height
ValidateDimensions ==
    /\ pc = "validate_dimension"
    /\ LET w == validate_dimension(unwrap_or(req.width, DefaultWidth), "width")
           h == validate_dimension(unwrap_or(req.height, DefaultHeight), "height")
       IN IF ~w.ok
          THEN /\ result' = w
               /\ pc' = "take_screenshot_return"
               /\ UNCHANGED viewport
          ELSE IF ~h.ok
          THEN /\ result' = h
               /\ pc' = "take_screenshot_return"
               /\ UNCHANGED viewport
          ELSE /\ viewport' = [width |-> w.value, height |-> h.value]
               /\ pc' = "new_tab"
               /\ UNCHANGED result
    /\ UNCHANGED <<fs, env, event, req, attempt, last_error, chrome_path, browser,
                   live, response, calls>>

\* take_screenshot returns: its local `browser` goes out of scope.
TakeScreenshotReturn ==
    /\ pc = "take_screenshot_return"
    /\ live' = DropBrowser(live, browser)
    /\ browser' = None
    /\ pc' = "http_respond"
    /\ UNCHANGED <<fs, env, event, req, attempt, last_error, chrome_path, viewport,
                   result, response, calls>>

----------------------------------------------------------------------------
(* screenshot.rs: ScreenshotService::capture_screenshot_internal           *)

\* The order of the calls in capture_screenshot_internal: the step that
\* follows a successful one.
NextStepNavigateFirst(step) ==
    CASE step = "new_tab" -> "navigate_to"
      [] step = "navigate_to" -> "set_viewport"
      [] step = "set_viewport" -> "wait_until_navigated"
      [] step = "wait_until_navigated" -> "settle"
      [] step = "settle" -> "capture_screenshot"

NextStep(step) ==
    CASE step = "new_tab" -> "set_viewport"
      [] step = "set_viewport" -> "navigate_to"
      [] step = "navigate_to" -> "wait_until_navigated"
      [] step = "wait_until_navigated" -> "settle"
      [] step = "settle" -> "capture_screenshot"

\* `if wait_time > 0`
ShouldSettleAlways(wait_time) == wait_time >= 0

ShouldSettle(wait_time) == wait_time > 0

CaptureVars == <<fs, env, event, req, attempt, last_error, chrome_path, browser,
                 viewport, live, response>>

\* `.map_err(|e| ScreenshotError::X(..))?`: the error leaves
\* capture_screenshot_internal and take_screenshot returns it.
Fail(call, kind, msg) ==
    /\ calls' = Append(calls, call)
    /\ result' = Err(kind, msg)
    /\ pc' = "take_screenshot_return"
    /\ UNCHANGED CaptureVars

Proceed(call, next) ==
    /\ calls' = Append(calls, call)
    /\ pc' = next
    /\ UNCHANGED result
    /\ UNCHANGED CaptureVars

NewTabOk ==
    /\ pc = "new_tab"
    /\ Proceed(Call("new_tab", <<"ok">>), NextStep("new_tab"))

NewTabFails ==
    /\ pc = "new_tab"
    /\ Fail(Call("new_tab", <<StepError>>), "Navigation",
            [text |-> "Failed to create new tab", e |-> StepError])

\* Emulation::SetDeviceMetricsOverride { width, height, device_scale_factor: 1.0, mobile: false, .. }
SetDeviceMetricsOverride(outcome) ==
    Call("SetDeviceMetricsOverride",
         <<viewport.width, viewport.height, 1, FALSE, outcome>>)

SetViewportOk ==
    /\ pc = "set_viewport"
    /\ Proceed(SetDeviceMetricsOverride("ok"), NextStep("set_viewport"))

SetViewportFails ==
    /\ pc = "set_viewport"
    /\ Fail(SetDeviceMetricsOverride(StepError), "Navigation",
            [text |-> "Failed to set viewport", e |-> StepError])

NavigateOk ==
    /\ pc = "navigate_to"
    /\ Proceed(Call("navigate_to", <<req.url, "ok">>), NextStep("navigate_to"))

NavigateFails ==
    /\ pc = "navigate_to"
    /\ Fail(Call("navigate_to", <<req.url, StepError>>), "Navigation",
            [text |-> "Failed to navigate to", url |-> req.url, e |-> StepError])

WaitUntilNavigatedOk ==
    /\ pc = "wait_until_navigated"
    /\ Proceed(Call("wait_until_navigated", <<"ok">>), NextStep("wait_until_navigated"))

WaitUntilNavigatedFails ==
    /\ pc = "wait_until_navigated"
    /\ Fail(Call("wait_until_navigated", <<StepError>>), "Navigation",
            [text |-> "Navigation timeout", e |-> StepError])

\* `if wait_time > 0 { std::thread::sleep(Duration::from_millis(wait_time)) }`
SettleSleep ==
    /\ pc = "settle"
    /\ LET wait_time == unwrap_or(req.wait_time, DefaultWaitMs)
       IN calls' = IF ShouldSettle(wait_time)
                   THEN Append(calls, Call("settle_sleep", <<wait_time>>))
                   ELSE calls
    /\ pc' = NextStep("settle")
    /\ UNCHANGED result
    /\ UNCHANGED CaptureVars

\* tab.capture_screenshot(screenshot_options, None, None, true) and what it
\* returned: "ok" with the image bytes, or an error with none.
CaptureCall(outcome, data) ==
    Call("capture_screenshot", <<CaptureScreenshotFormatOption, TRUE, outcome, data>>)

\* What capture_screenshot_internal returns when capture_screenshot fails.
CaptureErrorSwallowed(e) == Ok(<<>>)

CaptureErrorAsNavigation(e) ==
    Err("Navigation", [text |-> "Screenshot capture failed", e |-> e])

CaptureError(e) ==
    Err("Screenshot", [text |-> "Screenshot capture failed", e |-> e])

CaptureOk ==
    /\ pc = "capture_screenshot"
    /\ \E data \in CaptureOutputs :
          /\ calls' = Append(calls, CaptureCall("ok", data))
          /\ result' = Ok(data)
    /\ pc' = "take_screenshot_return"
    /\ UNCHANGED CaptureVars

CaptureFails ==
    /\ pc = "capture_screenshot"
    /\ calls' = Append(calls, CaptureCall(StepError, <<>>))
    /\ result' = CaptureError(StepError)
    /\ pc' = "take_screenshot_return"
    /\ UNCHANGED CaptureVars

----------------------------------------------------------------------------
(* The environment: a path of the search list appears or disappears        *)
(* between the two calls of find_chrome_executable.  A change before the   *)
(* first call is one of Init's filesystems; the program does not look at   *)
(* the filesystem after the second.                                        *)

FsChange ==
    /\ pc = "take_screenshot"
    /\ \E i \in 1..Len(ChromePaths) :
          fs' = IF ChromePaths[i] \in fs
                THEN fs \ {ChromePaths[i]}
                ELSE fs \cup {ChromePaths[i]}
    /\ UNCHANGED <<pc, env, event, req, attempt, last_error, chrome_path, browser,
                   viewport, live, result, response, calls>>

Next ==
    \/ FunctionHandler
    \/ HandleScreenshotRequest
    \/ ServiceNew
    \/ TakeScreenshotStart
    \/ LaunchSucceeds
    \/ LaunchFails
    \/ RetrySleep
    \/ ValidateDimensions
    \/ NewTabOk
    \/ NewTabFails
    \/ SetViewportOk
    \/ SetViewportFails
    \/ NavigateOk
    \/ NavigateFails
    \/ WaitUntilNavigatedOk
    \/ WaitUntilNavigatedFails
    \/ SettleSleep
    \/ CaptureOk
    \/ CaptureFails
    \/ TakeScreenshotReturn
    \/ HttpRespond
    \/ FsChange

Spec == Init /\ [][Next]_vars

\* The steps of the program itself: every external call it waits on
\* returns, with success or with failure, and the handler runs on.  The
\* filesystem's changes are the environment's and owe nothing.
ProgramStep ==
    \/ FunctionHandler
    \/ HandleScreenshotRequest
    \/ ServiceNew
    \/ TakeScreenshotStart
    \/ LaunchSucceeds
    \/ LaunchFails
    \/ RetrySleep
    \/ ValidateDimensions
    \/ NewTabOk
    \/ NewTabFails
    \/ SetViewportOk
    \/ SetViewportFails
    \/ NavigateOk
    \/ NavigateFails
    \/ WaitUntilNavigatedOk
    \/ WaitUntilNavigatedFails
    \/ SettleSleep
    \/ CaptureOk
    \/ CaptureFails
    \/ TakeScreenshotReturn
    \/ HttpRespond

FairSpec == Spec /\ WF_vars(ProgramStep)

----------------------------------------------------------------------------
(* The same program started from every combination of configured and       *)
(* supplied credentials, with few other parameters: an unset variable and  *)
(* an empty one are the same to env::var(..).unwrap_or_default().          *)

AuthInputs ==
    [API_KEY : {"", "k"}, RAPIDAPI_PROXY_SECRET : {"", "s"},
     proxy_secret : Optional({"", "s", "k"}),
     x_api_key : Optional({"", "k", "x"}),
     key : Optional({"", "k", "x"})]

AuthQueries ==
    [url : Optional({<<"h", "t", "t", "p", "s", ":", "/", "/", "e", ".", "c">>}),
     width : {None}, height : {None}, wait : {None},
     format : {None}, key : {None}]

InitAuth ==
    /\ pc = "function_handler"
    /\ fs \in SUBSET {ChromePaths[i] : i \in 1..Len(ChromePaths)}
    /\ \E a \in AuthInputs, m \in {"GET", "PUT"}, q \in AuthQueries :
          /\ env = EnvOf(a)
          /\ event = EventOf(a, m, q)
    /\ req = NoRequest
    /\ attempt = 0
    /\ last_error = NoError
    /\ chrome_path = None
    /\ browser = None
    /\ viewport = NoViewport
    /\ live = {}
    /\ result = NoResult
    /\ response = NoResponse
    /\ calls = <<>>

SpecAuth == InitAuth /\ [][Next]_vars

----------------------------------------------------------------------------
(* Reading the history.                                                    *)

CallIdx(op) == {i \in 1..Len(calls) : calls[i].op = op}

Count(op) == Cardinality(CallIdx(op))

SpawnIdx == CallIdx("Browser::new")

SpawnOkIdx == {i \in SpawnIdx : calls[i].arg[3] = "ok"}

\* ScreenshotService::take_screenshot was called and has returned.
Returned == pc = "http_respond" \/ (pc = "done" /\ result # NoResult)

ReqWidth == unwrap_or(req.width, DefaultWidth)

ReqHeight == unwrap_or(req.height, DefaultHeight)

OutOfRange(v) == v < 320 \/ v > 3840

----------------------------------------------------------------------------
(* C1: whenever take_screenshot has returned, on whatever path, no browser *)
(* process it created is still live and the Browser handle is released.    *)
C1_NoProcessOutlivesInvocation ==
    Returned => (live = {} /\ browser = None)

\* A process was launched, dimension validation then failed, and the
\* invocation has returned with the process gone.
C1_Witness ==
    /\ pc = "done"
    /\ Cardinality(SpawnOkIdx) = 1
    /\ ~result.ok
    /\ result.err.kind = "InvalidUrl"
    /\ live = {}

\* The request ended with the dimension failure of validate_dimension.
DimensionFailureReturned ==
    /\ pc = "done"
    /\ req # NoRequest
    /\ UrlParse(req.url).ok
    /\ OutOfRange(ReqWidth) \/ OutOfRange(ReqHeight)
    /\ response.status = 500
    /\ response.message[2].kind = "InvalidUrl"

(* C2 (as claimed): when a request with a dimension outside [320, 3840] is  *)
(* answered with the InvalidInput dimension failure, no call of             *)
(* find_chrome_executable and no launch attempt happened before it.         *)
C2_DimensionFailureBeforeLocation ==
    DimensionFailureReturned
    => /\ Count("find_chrome_executable") = 0
       /\ Count("Browser::new") = 0

(* C3: when the URL does not parse, take_screenshot makes no launch attempt *)
(* and returns the invalid-input failure carrying the parse error, whatever *)
(* the width, height and wait values.                                       *)
C3_InvalidUrlSpawnsNothing ==
    (req # NoRequest /\ ~UrlParse(req.url).ok)
    => /\ Count("Browser::new") = 0
       /\ live = {}
       /\ pc \in {"ScreenshotService::new", "take_screenshot",
                  "take_screenshot_return", "http_respond", "done"}
       /\ Returned => result = Err("InvalidUrl", UrlParse(req.url).err)

\* A URL with no scheme and a width below the minimum: the URL failure is
\* returned and nothing was launched.
C3_Witness ==
    /\ pc = "done"
    /\ req.url = <<"e", ".", "c">>
    /\ ReqWidth = 100
    /\ result = Err("InvalidUrl", "relative URL without a base")
    /\ Count("Browser::new") = 0

(* C4 (as claimed): with a well-formed URL, a width or height outside       *)
(* [320, 3840] always makes take_screenshot return InvalidInput naming an   *)
(* offending dimension and the violated bound, whatever executable location *)
(* and launch do; with both inside, no dimension failure is returned.       *)
C4_DimensionFailureIndependentOfLaunch ==
    (Returned /\ UrlParse(req.url).ok)
    => IF OutOfRange(ReqWidth) \/ OutOfRange(ReqHeight)
       THEN /\ ~result.ok
            /\ result.err.kind = "InvalidUrl"
            /\ \/ /\ result.err.msg.dimension_name = "width"
                  /\ result.err.msg.got = ReqWidth
                  /\ OutOfRange(ReqWidth)
               \/ /\ result.err.msg.dimension_name = "height"
                  /\ result.err.msg.got = ReqHeight
                  /\ OutOfRange(ReqHeight)
            /\ result.err.msg.limit = IF result.err.msg.got < 320 THEN 320 ELSE 3840
       ELSE result.ok \/ result.err.kind # "InvalidUrl"

(* C5: a successful Browser::new on attempt k (1 <= k <= max_retries) is    *)
(* the k-th spawn attempt, the k-1 before it failed, exactly k-1 retry      *)
(* delays were slept, and neither a delay nor another attempt follows it.   *)
C5_SuccessOnAttemptK ==
    \A i \in SpawnOkIdx :
        LET k == calls[i].arg[2]
        IN /\ 1 <= k /\ k <= MaxRetries
           /\ Cardinality({j \in SpawnIdx : j <= i}) = k
           /\ \A j \in SpawnIdx : j < i => calls[j].arg[3] # "ok"
           /\ Cardinality({j \in CallIdx("retry_sleep") : j < i}) = k - 1
           /\ \A j \in SpawnIdx \cup CallIdx("retry_sleep") : j <= i
           /\ pc \notin {"launch_browser_with_retry", "retry_sleep"}

\* Two failed attempts, then success on the third, with exactly two delays.
C5_Witness ==
    \E i \in SpawnOkIdx :
        /\ calls[i].arg[2] = 3
        /\ Count("Browser::new") = 3
        /\ Count("retry_sleep") = 2
        /\ browser # None

(* C6: when every spawn attempt fails, exactly max_retries attempts are     *)
(* made and never more, exactly max_retries - 1 delays are slept, none of   *)
(* them after the last failure, and the failure returned carries the error  *)
(* of the last attempt and the attempt count.                               *)
C6_ExhaustionAfterMaxRetries ==
    /\ Cardinality(SpawnIdx) <= MaxRetries
    /\ (/\ SpawnIdx # {}
        /\ SpawnOkIdx = {}
        /\ pc \notin {"launch_browser_with_retry", "retry_sleep"})
       => LET last == CHOOSE i \in SpawnIdx : \A j \in SpawnIdx : j <= i
          IN /\ Cardinality(SpawnIdx) = MaxRetries
             /\ calls[last].arg[2] = MaxRetries
             /\ Count("retry_sleep") = MaxRetries - 1
             /\ \A j \in CallIdx("retry_sleep") : j < last
             /\ last = Len(calls)
             /\ ~result.ok
             /\ result.err.kind = "BrowserLaunch"
             /\ result.err.msg.max_retries = MaxRetries
             /\ result.err.msg.last_error =
                   [attempt |-> MaxRetries, e |-> calls[last].arg[3]]

\* Three failed attempts whose first and last errors differ; the failure
\* returned names the last one.
C6_Witness ==
    /\ pc = "done"
    /\ Count("Browser::new") = 3
    /\ SpawnOkIdx = {}
    /\ \E i, j \in SpawnIdx : i < j /\ calls[i].arg[3] # calls[j].arg[3]
    /\ result.err.kind = "BrowserLaunch"

StepOps == {"new_tab", "SetDeviceMetricsOverride", "navigate_to",
            "wait_until_navigated", "capture_screenshot"}

\* The outcome recorded with a call of the capture session.
StepOutcome(c) ==
    IF c.op = "capture_screenshot" THEN c.arg[3] ELSE c.arg[Len(c.arg)]

\* Every call of the capture session was made and succeeded.
AllStepsSucceeded ==
    /\ \E i \in CallIdx("new_tab") : calls[i].arg[1] = "ok"
    /\ \E i \in CallIdx("SetDeviceMetricsOverride") : calls[i].arg[5] = "ok"
    /\ \E i \in CallIdx("navigate_to") : calls[i].arg[2] = "ok"
    /\ \E i \in CallIdx("wait_until_navigated") : calls[i].arg[1] = "ok"
    /\ \E i \in CallIdx("capture_screenshot") : calls[i].arg[3] = "ok"

(* C7: take_screenshot returns bytes only when URL validation, executable   *)
(* location, launch, both dimension validations and every capture step      *)
(* succeeded, and then exactly the bytes the capture call produced; a       *)
(* failure carries no bytes; a 200 response is produced only from bytes.    *)
C7_NoPartialSuccess ==
    /\ (pc \in {"take_screenshot_return", "http_respond"} \/ Returned)
       => IF result.ok
          THEN /\ UrlParse(req.url).ok
               /\ \E i \in CallIdx("find_chrome_executable") :
                     calls[i].arg[1] # None /\ calls[i].arg[1] = chrome_path
               /\ Cardinality(SpawnOkIdx) = 1
               /\ ~OutOfRange(ReqWidth) /\ ~OutOfRange(ReqHeight)
               /\ AllStepsSucceeded
               /\ \A i \in CallIdx("capture_screenshot") :
                     calls[i].arg[4] = result.bytes
               /\ result.bytes \in CaptureOutputs
               /\ \A i \in 1..Len(calls) :
                     calls[i].op \in StepOps => StepOutcome(calls[i]) = "ok"
          ELSE /\ "bytes" \notin DOMAIN result
               /\ result.err.kind \in {"InvalidUrl", "ChromeNotFound", "BrowserLaunch",
                                       "Navigation", "Screenshot"}
    /\ response.status = 200
       => /\ Returned
          /\ result.ok
          /\ response.data = Base64Encode(result.bytes)

\* A complete run, its launch retried once, answered with 200 and the
\* captured bytes.
C7_Witness ==
    /\ pc = "done"
    /\ response.status = 200
    /\ result.ok
    /\ result.bytes = <<137, 80, 78, 71>>
    /\ Count("Browser::new") = 2

(* C8: at any moment at most one browser process is live, at most one       *)
(* launch has succeeded, a failed attempt leaves no process, at most one    *)
(* tab has been opened and at most one capture call issued.                 *)
C8_SingleFlight ==
    /\ Cardinality(live) <= 1
    /\ Cardinality(SpawnOkIdx) <= 1
    /\ live \subseteq 1..Cardinality(SpawnOkIdx)
    /\ (browser # None) => live = {Unwrap(browser)}
    /\ Count("new_tab") <= 1
    /\ Count("capture_screenshot") <= 1

\* After two failed attempts one process is live, with its one tab open and
\* its one capture issued.
C8_Witness ==
    /\ live = {1}
    /\ Count("Browser::new") = 3
    /\ Count("new_tab") = 1
    /\ Count("capture_screenshot") = 1

(* C9: a find_chrome_executable call that finds nothing is the last call    *)
(* the invocation makes: no further location, no launch attempt, no delay;  *)
(* the request ends as the ChromeNotFound failure.                          *)
C9_NotFoundIsFatal ==
    \A i \in CallIdx("find_chrome_executable") :
        calls[i].arg[1] = None
        => /\ i = Len(calls)
           /\ Count("Browser::new") = 0
           /\ Count("retry_sleep") = 0
           /\ live = {}
           /\ pc \in {"take_screenshot_return", "http_respond", "done"}
           /\ pc # "done" => (~result.ok /\ result.err.kind = "ChromeNotFound")
           /\ pc = "done" => /\ response.status = 500
                             /\ response.message[2].kind = "ChromeNotFound"

\* The binary is missing when the service is constructed.
C9_Witness ==
    /\ pc = "done"
    /\ Count("find_chrome_executable") = 1
    /\ calls[Len(calls)] = Call("find_chrome_executable", <<None>>)
    /\ response.status = 500

(* C10 (as claimed): the content_type of a success response is the MIME     *)
(* type of the format the capture call asked the browser for.               *)
C10_MimeMatchesCapture ==
    (pc = "done" /\ response.status = 200)
    => \A i \in CallIdx("capture_screenshot") :
          response.content_type = ContentType(calls[i].arg[1])

----------------------------------------------------------------------------
(* The executable locator.                                                 *)

SearchList == <<"/opt/chromium/chrome", "/opt/chrome">>

\* Index in SearchList of the earliest path that exists, 0 when none does.
EarliestIn(fsys) ==
    IF \E i \in 1..Len(SearchList) : SearchList[i] \in fsys
    THEN CHOOSE i \in 1..Len(SearchList) :
            /\ SearchList[i] \in fsys
            /\ \A j \in 1..(i - 1) : SearchList[j] \notin fsys
    ELSE 0

\* The calls a step appends to the history.
NewCalls == SubSeq(calls', Len(calls) + 1, Len(calls'))

\* The stat calls that immediately precede call i of history cs.
StatsBefore(cs, i) ==
    {j \in 1..(i - 1) : \A k \in j..(i - 1) : cs[k].op = "exists"}

(* C11: every call of find_chrome_executable stats the paths of the fixed   *)
(* list in order up to the earliest one that exists and no further, returns *)
(* that path (None when none exists), and leaves the filesystem and the     *)
(* processes as they were; it returns what an earlier call returned         *)
(* whenever the filesystem still is as that earlier call saw it.            *)
C11_LocatorShortCircuitIdempotent ==
    [][\A n \in 1..Len(NewCalls) :
          NewCalls[n].op = "find_chrome_executable"
          => LET e == EarliestIn(fs)
                 checked == IF e = 0 THEN Len(SearchList) ELSE e
             IN /\ fs' = fs /\ live' = live /\ browser' = browser
                /\ NewCalls[n].arg[1] = IF e = 0 THEN None ELSE Some(SearchList[e])
                /\ n = checked + 1
                /\ \A k \in 1..checked :
                      NewCalls[k] = Call("exists", <<SearchList[k], SearchList[k] \in fs>>)
                /\ \A i \in 1..Len(calls) :
                      (/\ calls[i].op = "find_chrome_executable"
                       /\ \A j \in StatsBefore(calls, i) :
                             calls[j].arg[2] = (calls[j].arg[1] \in fs))
                      => calls[i].arg[1] = NewCalls[n].arg[1]
      ]_vars

\* Two calls in one request, each finding the first path missing and
\* returning the second.
C11_Witness ==
    /\ Len(calls) >= 7
    /\ calls[1] = Call("exists", <<"/opt/chromium/chrome", FALSE>>)
    /\ calls[2] = Call("exists", <<"/opt/chrome", TRUE>>)
    /\ calls[3] = Call("find_chrome_executable", <<Some("/opt/chrome")>>)
    /\ calls[5] = Call("exists", <<"/opt/chromium/chrome", FALSE>>)
    /\ calls[6] = Call("exists", <<"/opt/chrome", TRUE>>)
    /\ calls[7] = Call("find_chrome_executable", <<Some("/opt/chrome")>>)

----------------------------------------------------------------------------
\* C12: an authorized request without a 'url' query parameter, whatever
\* its method, format and other parameters, ends with status 500 and the
\* INTERNAL_ERROR body, and on its way neither the executable locator
\* nor a browser launch is attempted (no external call at all is made).
MissingUrl == event # NoEvent /\ event.query.url = None

C12_MissingUrlIsInternalError ==
    (MissingUrl /\ Authorized(env, event))
    => /\ pc \in {"function_handler", "handle_screenshot_request", "done"}
       /\ calls = <<>>
       /\ req = NoRequest
       /\ live = {}
       /\ pc = "done" => /\ response.status = 500
                         /\ response.error = "INTERNAL_ERROR"
                         /\ response.message = "Missing required 'url' parameter"

C12_Witness ==
    /\ MissingUrl /\ Authorized(env, event)
    /\ pc = "done"
    /\ event.method = "PUT"
    /\ event.query.format = Some("gif")
    /\ event.query.width = Some(<<"x">>)
    /\ env["API_KEY"] = "k"
    /\ response.status = 500

----------------------------------------------------------------------------
\* The calls capture_screenshot_internal has made so far, in order.
SessionOps == StepOps \cup {"settle_sleep"}

IsSessionCall(c) == c.op \in SessionOps

Session == SelectSeq(calls, IsSessionCall)

\* Position of a step in the order the claim gives.
Rank(op) ==
    CASE op = "new_tab" -> 1
      [] op = "SetDeviceMetricsOverride" -> 2
      [] op = "navigate_to" -> 3
      [] op = "wait_until_navigated" -> 4
      [] op = "settle_sleep" -> 5
      [] op = "capture_screenshot" -> 6

\* A sleep has no outcome; every other step records one.
Succeeded(c) == c.op = "settle_sleep" \/ StepOutcome(c) = "ok"

\* C13: the steps of capture_screenshot_internal occur in the order
\* open-tab, set-viewport, navigate, wait-for-navigation, settle-sleep,
\* capture; a step runs only after every earlier step succeeded, the
\* first failing step is the last step, the viewport override carries
\* the validated width and height with scale 1.0 and mobile = false, and
\* it always precedes navigation.
C13_CaptureStepOrder ==
    /\ Len(Session) > 0 => Session[1].op = "new_tab"
    /\ \A n \in 2..Len(Session) :
          /\ Succeeded(Session[n - 1])
          /\ \/ Rank(Session[n].op) = Rank(Session[n - 1].op) + 1
             \/ /\ Session[n - 1].op = "wait_until_navigated"
                /\ Session[n].op = "capture_screenshot"
    /\ \A i \in CallIdx("SetDeviceMetricsOverride") :
          /\ SubSeq(calls[i].arg, 1, 4) = <<ReqWidth, ReqHeight, 1, FALSE>>
          /\ ~OutOfRange(ReqWidth) /\ ~OutOfRange(ReqHeight)
          /\ \A j \in CallIdx("navigate_to") : i < j
    /\ \A j \in CallIdx("navigate_to") :
          \E i \in CallIdx("SetDeviceMetricsOverride") : i < j /\ calls[i].arg[5] = "ok"

\* All six steps ran with a non-default viewport, and, in another run, the
\* sequence stopped at a failing navigate.
C13_Witness ==
    /\ Len(Session) = 6
    /\ Session[6].op = "capture_screenshot"
    /\ Session[2].arg = <<320, 320, 1, FALSE, "ok">>

----------------------------------------------------------------------------
\* The failure kind the claim gives for each step of the capture session.
KindOf(op) == IF op = "capture_screenshot" THEN "Screenshot" ELSE "Navigation"

\* C14: a failure of tab open, viewport override, navigate or
\* wait-for-navigation yields the Navigation kind (the navigate failure's
\* message carrying the target URL), a failure of the capture call yields
\* the Screenshot kind, the capture session produces no other failure, and
\* no failed step is retried: every step is called at most once and a
\* failed step is the last call of the session.
C14_StepFailureKinds ==
    /\ \A op \in SessionOps : Count(op) <= 1
    /\ \A n \in 1..Len(Session) :
          ~Succeeded(Session[n])
          => /\ n = Len(Session)
             /\ ~result.ok
             /\ "bytes" \notin DOMAIN result
             /\ result.err.kind = KindOf(Session[n].op)
             /\ result.err.msg.e = StepOutcome(Session[n])
             /\ Session[n].op = "navigate_to"
                => /\ result.err.msg.url = req.url
                   /\ Session[n].arg[1] = req.url
    /\ (Len(Session) > 0 /\ result # NoResult /\ ~result.ok)
       => /\ ~Succeeded(Session[Len(Session)])
          /\ result.err.kind \in {"Navigation", "Screenshot"}

\* The capture call itself failed after every earlier step succeeded.
C14_Witness ==
    /\ Returned
    /\ Len(Session) = 6
    /\ Session[6].op = "capture_screenshot"
    /\ ~Succeeded(Session[6])
    /\ result.err.kind = "Screenshot"

----------------------------------------------------------------------------
\* The settle time take_screenshot passes to capture_screenshot_internal.
ReqWait == unwrap_or(req.wait_time, 1000)

\* The settle time the caller asked for in the 'wait' query parameter.
AskedWait(q) ==
    IF q.wait = Some(<<"0">>) THEN 0
    ELSE IF q.wait = Some(<<"2", "5", "0">>) THEN 250
    ELSE 1000

\* The capture session is past the point where it sleeps.
PastSettle == pc = "capture_screenshot" \/ Count("capture_screenshot") > 0

\* The settle sleep in a state: slept at most once, for the effective time,
\* directly after a successful wait-for-navigation and before the capture;
\* past that point it has happened exactly when the time is above 0.
SettleSleepInPlace ==
    /\ Count("settle_sleep") <= 1
    /\ \A i \in CallIdx("settle_sleep") :
          /\ calls[i].arg = <<ReqWait>>
          /\ ReqWait > 0
          /\ i > 1
          /\ calls[i - 1] = Call("wait_until_navigated", <<"ok">>)
          /\ \A j \in CallIdx("capture_screenshot") : j = i + 1
    /\ PastSettle => (Count("settle_sleep") = 1 <=> ReqWait > 0)
    /\ ~PastSettle => Count("settle_sleep") = 0

\* C15: the settle sleep happens if and only if the effective settle time
\* is above 0, lasts that many milliseconds, and lies after a successful
\* wait-for-navigation and before the capture call; the effective time is
\* the caller's 'wait' value, or 1000 ms when the caller gives none.
C15_SettleSleep ==
    [][/\ (pc = "handle_screenshot_request" /\ pc' = "ScreenshotService::new")
          => req'.wait_time = Some(AskedWait(event.query))
       /\ SettleSleepInPlace'
      ]_vars

\* No 'wait' was given and the capture followed a sleep of 1000 ms.
C15_Witness ==
    /\ Count("capture_screenshot") = 1
    /\ Count("settle_sleep") = 1
    /\ \A i \in CallIdx("settle_sleep") : calls[i].arg = <<1000>>

\* A settle time of 0: the capture was made with no sleep before it.
C15_WitnessSkipped ==
    /\ Count("capture_screenshot") = 1
    /\ ReqWait = 0
    /\ Count("settle_sleep") = 0

----------------------------------------------------------------------------
\* C16: in a request handled end to end (service construction followed by
\* take_screenshot) the executable locator is called exactly once, and
\* the path every launch is given is the path that resolution returned.
C16_ResolvedOncePerInvocation ==
    (pc = "done" /\ Returned /\ Count("Browser::new") > 0)
    => /\ Count("find_chrome_executable") = 1
       /\ \A i \in CallIdx("find_chrome_executable"), j \in SpawnIdx :
             calls[j].arg[1] = calls[i].arg[1]

----------------------------------------------------------------------------
\* The environment holds the nine fixed values.
EnvPrepared == \A k \in DOMAIN LambdaEnv : env[k] = LambdaEnv[k]

\* C17: setup_lambda_env has run before the first browser launch attempt
\* of the request, it overwrites the same fixed keys with the same fixed
\* values whatever they held and touches no other key, and running it
\* again on the environment it left changes nothing.
C17_EnvPreparedBeforeLaunch ==
    [][/\ (\E n \in 1..Len(NewCalls) : NewCalls[n].op = "setup_lambda_env")
          => /\ EnvPrepared'
             /\ DOMAIN env' = DOMAIN env
             /\ \A k \in DOMAIN env \ DOMAIN LambdaEnv : env'[k] = env[k]
             /\ setup_lambda_env(env') = env'
       /\ (\A n \in 1..Len(NewCalls) : NewCalls[n].op # "setup_lambda_env")
          => env' = env
       /\ \A n \in 1..Len(NewCalls) :
             NewCalls[n].op = "Browser::new"
             => /\ Count("setup_lambda_env") = 1
                /\ EnvPrepared
      ]_vars

\* A launch was attempted in an environment whose HOME was set to another
\* value before the request and whose credentials were configured.
C17_Witness ==
    /\ Count("Browser::new") > 0
    /\ Count("setup_lambda_env") = 1
    /\ env["HOME"] = "/tmp"
    /\ env["API_KEY"] = "k"

----------------------------------------------------------------------------
\* Credentials as the claim words them.
Configured == env["API_KEY"] # "" \/ env["RAPIDAPI_PROXY_SECRET"] # ""

CarriesSecret ==
    /\ env["RAPIDAPI_PROXY_SECRET"] # ""
    /\ event.headers.proxy_secret = Some(env["RAPIDAPI_PROXY_SECRET"])

\* The API key of a request: the x-api-key header, else the 'key' parameter.
ApiKeyOf(ev) ==
    IF ev.headers.x_api_key # None THEN ev.headers.x_api_key ELSE ev.query.key

CarriesApiKey ==
    /\ env["API_KEY"] # ""
    /\ ApiKeyOf(event) = Some(env["API_KEY"])

\* C18: with API_KEY or RAPIDAPI_PROXY_SECRET configured, a request that
\* carries neither the configured proxy secret in its header nor the
\* configured API key (x-api-key header, else 'key' query parameter) is
\* answered 401 UNAUTHORIZED, and for it no parameter is parsed, no
\* executable is located and no browser is launched; with neither
\* configured, no request is answered 401 and every request is dispatched.
C18_UnauthorizedStopsAtTheDoor ==
    /\ (event # NoEvent /\ Configured /\ ~CarriesSecret /\ ~CarriesApiKey)
       => /\ pc \in {"function_handler", "done"}
          /\ req = NoRequest
          /\ calls = <<>>
          /\ live = {}
          /\ pc = "done" => /\ response.status = 401
                            /\ response.error = "UNAUTHORIZED"
    /\ ~Configured
       => /\ response.status # 401
          /\ pc = "done" => (response # NoResponse /\ response.status \in {200, 405, 500})

\* A request refused although its 'key' parameter holds the configured key,
\* because its x-api-key header holds another value.
C18_Witness ==
    /\ pc = "done"
    /\ response.status = 401
    /\ env["API_KEY"] = "k"
    /\ event.headers.x_api_key = Some("x")
    /\ event.query.key = Some("k")
    /\ event.headers.proxy_secret = Some("k")

----------------------------------------------------------------------------
\* What take_screenshot hands back: image bytes or one of the typed failures.
TypedResult ==
    IF result.ok
    THEN "bytes" \in DOMAIN result /\ "err" \notin DOMAIN result
    ELSE /\ "bytes" \notin DOMAIN result
         /\ result.err.kind \in {"InvalidUrl", "ChromeNotFound", "BrowserLaunch",
                                 "Navigation", "Screenshot"}

LaunchBudgetKept == Count("Browser::new") <= 3 /\ Count("retry_sleep") <= 2

\* C19: provided every external blocking call returns, every invocation of
\* take_screenshot eventually returns image bytes or a typed failure,
\* having made at most 3 launch attempts and at most 2 retry delays, and
\* with no browser process left live.
C19_TakeScreenshotTerminates ==
    /\ (pc = "take_screenshot")
       ~> (Returned /\ TypedResult /\ LaunchBudgetKept /\ live = {} /\ browser = None)
    /\ []LaunchBudgetKept

\* Returned with bytes after two failed launches, two delays and a third,
\* successful launch, the process gone.
C19_Witness ==
    /\ Returned
    /\ result.ok
    /\ Count("Browser::new") = 3
    /\ Count("retry_sleep") = 2
    /\ live = {}

====
